---------------------------- MODULE Spec2Model ----------------------------
(***************************************************************************)
(* Descriptive statistics and outlier slices of the hockey draft data set. *)
(*                                                                         *)
(* Two pipelines of the repository are modelled:                           *)
(*   - the facade of exporatory_analysis_1.py:                             *)
(*       hockey_overview = clean_hockey_df ; points_summary ; points_groups*)
(*   - the single-dict hockey_overview of exploratory_analysis_function.py *)
(*                                                                         *)
(* Numbers are fixed-point: a value x is held as the integer x * Unit.     *)
(* Inputs are multiples of 1/2, quantile weights are quarters and the      *)
(* fences multiply by 3/2, so every float the code computes here is a      *)
(* multiple of 1/16 and is exact in binary floating point as well.         *)
(***************************************************************************)
EXTENDS Integers, Sequences, FiniteSets, TLC

VARIABLES raw_df, pc, df_clean, df_reclean, summary, groups, overview, out,
          result, pre, post, stats, res, err

vars ==
    <<raw_df, pc, df_clean, df_reclean, summary, groups, overview, out,
      result, pre, post, stats, res, err>>

\* Largest number of rows of an input frame.
MaxRows == 4

\* Fixed-point unit: sixteenths.
Unit == 4 * 4

---------------------------------------------------------------------------
(* Cells: what one field of one row holds.                                 *)

Num(x) == [k |-> "num", n |-> x, s |-> ""]
Str(t) == [k |-> "str", n |-> 0, s |-> t]
NaN    == [k |-> "nan", n |-> 0, s |-> ""]

IsNaN(c) == c.k = "nan"

---------------------------------------------------------------------------
(* Column names are sequences of characters, so that str.strip() is a real *)
(* conversion.                                                             *)

SP == " "
N_year    == <<"y", "e", "a", "r">>
N_player  == <<"p", "l", "a", "y", "e", "r">>
N_team    == <<"t", "e", "a", "m">>
N_points  == <<"p", "o", "i", "n", "t", "s">>
N_points_padded == <<SP>> \o N_points \o <<SP>>
N_pts     == <<"p", "t", "s">>
N_assists == <<"a", "s", "s", "i", "s", "t", "s">>
N_goalie_wins == <<"g", "o", "a", "l", "i", "e", "_", "w", "i", "n", "s">>
N_to_year == <<"t", "o", "_", "y", "e", "a", "r">>
N_years_played == <<"y", "e", "a", "r", "s", "_", "p", "l", "a", "y", "e", "d">>
N_points_per_season ==
    <<"p", "o", "i", "n", "t", "s", "_", "p", "e", "r", "_",
      "s", "e", "a", "s", "o", "n">>

RECURSIVE LStrip(_)
LStrip(name) ==
    IF name # <<>> /\ Head(name) = SP THEN LStrip(Tail(name)) ELSE name

RECURSIVE RStrip(_)
RStrip(name) ==
    IF name # <<>> /\ name[Len(name)] = SP
    THEN RStrip(SubSeq(name, 1, Len(name) - 1))
    ELSE name

\* A trim of the leading whitespace only.
StripLeadingOnly(name) == LStrip(name)

\* str.strip(): leading and trailing whitespace removed.
Strip(name) == RStrip(LStrip(name))

---------------------------------------------------------------------------
(* Frames: an ordered list of column names and rows aligned with it.       *)

Frame(cols, rows) == [columns |-> cols, rows |-> rows]

HasCol(df, name) == \E i \in 1..Len(df.columns) : df.columns[i] = name

ColIx(df, name) == CHOOSE i \in 1..Len(df.columns) : df.columns[i] = name

\* df[name] : the column as a sequence of cells.
Col(df, name) == [i \in 1..Len(df.rows) |-> df.rows[i][ColIx(df, name)]]

\* df[name] = values : the column replaced, rows kept.
SetCol(df, name, values) ==
    Frame(df.columns,
          [i \in 1..Len(df.rows) |->
              [df.rows[i] EXCEPT ![ColIx(df, name)] = values[i]]])

\* dropna(how='any') : a row goes when any field of it is missing.
DropAnyNaRows(df) ==
    Frame(df.columns,
          SelectSeq(df.rows, LAMBDA r : \A j \in 1..Len(r) : ~IsNaN(r[j])))

\* dropna(how='all') : a row goes when every field of it is missing.
DropAllNaRows(df) ==
    Frame(df.columns,
          SelectSeq(df.rows, LAMBDA r : \E j \in 1..Len(r) : ~IsNaN(r[j])))

\* dropna(subset=[name]) : a row goes when that field is missing.
DropNaSubset(df, name) ==
    Frame(df.columns,
          SelectSeq(df.rows, LAMBDA r : ~IsNaN(r[ColIx(df, name)])))

---------------------------------------------------------------------------
(* Numeric coercion.                                                       *)

\* The numeric literals that occur as text in the inputs, and their values.
NumericText == {"1.5"}
ParseText(t) == IF t = "1.5" THEN (3 * Unit) \div 2 ELSE 0

\* A coercion that parses text only and takes a value that is already a
\* number for unparsable.
ToNumericTextOnly(c) ==
    IF c.k = "str" /\ c.s \in NumericText THEN Num(ParseText(c.s)) ELSE NaN

\* pd.to_numeric(errors='coerce') on one cell.
ToNumeric(c) ==
    CASE c.k = "num" -> c
      [] c.k = "str" -> IF c.s \in NumericText THEN Num(ParseText(c.s)) ELSE NaN
      [] OTHER       -> NaN

\* fillna(0)
FillNa0(c) == IF IsNaN(c) THEN Num(0) ELSE c

\* int(x) and astype(int): truncation toward zero, result still in Units.
TruncInt(x) ==
    IF x >= 0 THEN (x \div Unit) * Unit ELSE -(((-x) \div Unit) * Unit)

AsTypeInt(c) == Num(TruncInt(c.n))

---------------------------------------------------------------------------
(* 1. Cleaning layer (zero-fill variant).                                  *)

StripColumns(df) ==
    Frame([i \in 1..Len(df.columns) |-> Strip(df.columns[i])], df.rows)

CoercePoints(df) ==
    SetCol(df, N_points,
           [i \in 1..Len(df.rows) |->
               AsTypeInt(FillNa0(ToNumeric(Col(df, N_points)[i])))])

\* clean_hockey_df up to the column check.
CleanPrepared(df) == DropAllNaRows(StripColumns(df))

CleanRaises(df) == ~HasCol(CleanPrepared(df), N_points)

clean_hockey_df(df) == CoercePoints(CleanPrepared(df))

\* The caller's frame after a call that skips df.copy(): the trimmed names,
\* the dropped rows and the coerced points land in it.
CallerAfterCleanAliased(df) ==
    IF CleanRaises(df) THEN CleanPrepared(df) ELSE clean_hockey_df(df)

\* The caller's frame after clean_hockey_df(df): the function works on
\* df.copy(), so every in-place step misses the caller's frame.
CallerAfterClean(df) == df

---------------------------------------------------------------------------
(* Floats of the summary: a rational n/d in Units, or NaN.                 *)

F(n, d) == [nan |-> FALSE, n |-> n, d |-> d]
FNaN    == [nan |-> TRUE, n |-> 0, d |-> 1]

FSub(a, b) == IF a.nan \/ b.nan THEN FNaN ELSE F(a.n - b.n, 1)
FAdd(a, b) == IF a.nan \/ b.nan THEN FNaN ELSE F(a.n + b.n, 1)
\* 1.5 * x
FMul15(a)  == IF a.nan THEN FNaN ELSE F((3 * a.n) \div 2, 1)

\* int(x) of a float: ValueError on NaN (see IntRaises), else truncation.
FInt(a) == F(TruncInt(a.n), 1)

---------------------------------------------------------------------------
(* Order statistics of a points column (a sequence of numbers in Units).   *)

RECURSIVE InsertNum(_, _)
InsertNum(sorted, x) ==
    IF sorted = <<>> THEN <<x>>
    ELSE IF x < Head(sorted) THEN <<x>> \o sorted
    ELSE <<Head(sorted)>> \o InsertNum(Tail(sorted), x)

RECURSIVE SortNums(_)
SortNums(xs) ==
    IF xs = <<>> THEN <<>> ELSE InsertNum(SortNums(Tail(xs)), Head(xs))

RECURSIVE SumSeq(_)
SumSeq(xs) == IF xs = <<>> THEN 0 ELSE Head(xs) + SumSeq(Tail(xs))

RECURSIVE SumSq(_)
SumSq(xs) == IF xs = <<>> THEN 0 ELSE Head(xs) * Head(xs) + SumSq(Tail(xs))

\* The k-th quartile of an ascending sequence, linear interpolation between
\* order statistics: position (n-1)*k/4, its fraction weighting the next value.
QuantileSorted(srt, k) ==
    IF srt = <<>> THEN FNaN
    ELSE LET pos4 == (Len(srt) - 1) * k
             lo   == (pos4 \div 4) + 1
             r    == pos4 % 4
             hi   == IF r = 0 THEN lo ELSE lo + 1
         IN  F(srt[lo] + (r * (srt[hi] - srt[lo])) \div 4, 1)

\* Series.quantile(k/4)
Quantile(xs, k) == QuantileSorted(SortNums(xs), k)

\* Series.median()
Median(xs) == Quantile(xs, 2)

\* Series.mean()
Mean(xs) == IF xs = <<>> THEN FNaN ELSE F(SumSeq(xs), Len(xs))

\* Series.var(), ddof = 1: NaN below two values.
Var(xs) ==
    IF Len(xs) < 2 THEN FNaN
    ELSE F(Len(xs) * SumSq(xs) - SumSeq(xs) * SumSeq(xs),
           Len(xs) * (Len(xs) - 1))

\* The square root of a float, held as its radicand: the value is
\* sqrt(n/d), zero exactly when n is zero, NaN when the radicand is.
FSqrt(a) ==
    IF a.nan THEN FNaN ELSE [nan |-> FALSE, n |-> a.n, d |-> a.d, root |-> 2]

\* Series.std(), ddof = 1
Std(xs) == FSqrt(Var(xs))

SeqMax(xs) == CHOOSE m \in {xs[i] : i \in 1..Len(xs)} :
                 \A i \in 1..Len(xs) : xs[i] <= m
SeqMin(xs) == CHOOSE m \in {xs[i] : i \in 1..Len(xs)} :
                 \A i \in 1..Len(xs) : m <= xs[i]

\* The numbers of a numeric column.
Nums(cells) == [i \in 1..Len(cells) |-> cells[i].n]

---------------------------------------------------------------------------
(* Row selection, sorting and export.                                      *)

\* The points of one row of df, in Units.
Pts(df, r) == r[ColIx(df, N_points)].n

\* Lexicographic "a strictly before b" on the columns of `by`, every key
\* ascending or every key descending.
RECURSIVE KeyBefore(_, _, _, _, _)
KeyBefore(df, a, b, by, asc) ==
    IF by = <<>> THEN FALSE
    ELSE LET x == a[ColIx(df, Head(by))].n
             y == b[ColIx(df, Head(by))].n
         IN  IF x = y THEN KeyBefore(df, a, b, Tail(by), asc)
             ELSE IF asc THEN x < y ELSE x > y

\* A row placed after every row that is not after it (stable).
RECURSIVE InsertRow(_, _, _, _, _)
InsertRow(df, sorted, r, by, asc) ==
    IF sorted = <<>> THEN <<r>>
    ELSE IF KeyBefore(df, r, Head(sorted), by, asc) THEN <<r>> \o sorted
    ELSE <<Head(sorted)>> \o InsertRow(df, Tail(sorted), r, by, asc)

RECURSIVE SortRows(_, _, _, _, _)
SortRows(df, todo, acc, by, asc) ==
    IF todo = <<>> THEN acc
    ELSE SortRows(df, Tail(todo), InsertRow(df, acc, Head(todo), by, asc), by, asc)

\* A sort that drops the ascending flag and sorts upward.
sort_values_ascending(df, by, asc) ==
    Frame(df.columns, SortRows(df, df.rows, <<>>, by, TRUE))

\* DataFrame.sort_values(by, ascending=asc)
sort_values(df, by, asc) ==
    Frame(df.columns, SortRows(df, df.rows, <<>>, by, asc))

\* df[["year","player","team","points"]].to_dict("records")
keep_cols(df) ==
    [i \in 1..Len(df.rows) |->
        [year   |-> df.rows[i][ColIx(df, N_year)],
         player |-> df.rows[i][ColIx(df, N_player)],
         team   |-> df.rows[i][ColIx(df, N_team)],
         points |-> df.rows[i][ColIx(df, N_points)]]]

\* The selection with its comparison turned round: df[pts <= bound].
RowsAtLeastFlipped(df, bound) ==
    Frame(df.columns,
          SelectSeq(df.rows, LAMBDA r : ~bound.nan /\ Pts(df, r) <= bound.n))

\* df[pts >= bound] ; a comparison with NaN is false.
RowsAtLeast(df, bound) ==
    Frame(df.columns,
          SelectSeq(df.rows, LAMBDA r : ~bound.nan /\ Pts(df, r) >= bound.n))

\* df[pts <= bound]
RowsAtMost(df, bound) ==
    Frame(df.columns,
          SelectSeq(df.rows, LAMBDA r : ~bound.nan /\ Pts(df, r) <= bound.n))

\* The first row at the value only (idxmax-style), ties dropped.
RowsEqualFirst(df, value) ==
    Frame(df.columns,
          SubSeq(SelectSeq(df.rows, LAMBDA r : Pts(df, r) = value), 1, 1))

\* df[pts == value]
RowsEqual(df, value) ==
    Frame(df.columns, SelectSeq(df.rows, LAMBDA r : Pts(df, r) = value))

\* A filter that lets the zeros through.
NonZeroKeepsZero(xs) == xs

\* A filter that keeps the positive values only: pts[pts > 0].
NonZeroPositiveOnly(xs) == SelectSeq(xs, LAMBDA x : x > 0)

\* pts[pts != 0]
NonZero(xs) == SelectSeq(xs, LAMBDA x : x # 0)

---------------------------------------------------------------------------
(* 2A. Summary of the facade: median, iqr and both bounds go through int().*)

\* q1, q3 = pts.quantile([0.25, 0.75]); iqr = q3 - q1; the two fences.
Fences(xs) ==
    LET srt == SortNums(xs)
        q1  == QuantileSorted(srt, 1)
        q3  == QuantileSorted(srt, 3)
        iqr == FSub(q3, q1)
    IN  [q1 |-> q1, q3 |-> q3, median |-> QuantileSorted(srt, 2), iqr |-> iqr,
         lower |-> FSub(q1, FMul15(iqr)), upper |-> FAdd(q3, FMul15(iqr))]

\* int(NaN) raises ValueError.
points_summary_raises(xs) ==
    LET f == Fences(xs)
    IN  f.median.nan \/ f.iqr.nan \/ f.lower.nan \/ f.upper.nan

points_summary(xs) ==
    LET f == Fences(xs)
    IN  [count       |-> Len(xs),
         mean        |-> Mean(xs),
         median      |-> FInt(f.median),
         variance    |-> Var(xs),
         std_dev     |-> Std(xs),
         iqr         |-> FInt(f.iqr),
         lower_bound |-> FInt(f.lower),
         upper_bound |-> FInt(f.upper)]

---------------------------------------------------------------------------
(* 2B. Slices of the facade.                                               *)

points_groups(df, sm) ==
    LET xs      == Nums(Col(df, N_points))
        upper   == sort_values(RowsAtLeast(df, sm.upper_bound),
                               <<N_year, N_points>>, FALSE)
        lower   == sort_values(RowsAtMost(df, sm.lower_bound),
                               <<N_points, N_year>>, TRUE)
        max_pts == TruncInt(SeqMax(xs))
        min_pts == TruncInt(SeqMin(xs))
    IN  [upper_players  |-> keep_cols(upper),
         lower_players  |-> keep_cols(lower),
         top_players    |-> keep_cols(RowsEqual(df, max_pts)),
         bottom_players |-> keep_cols(RowsEqual(df, min_pts)),
         bottom_nonzero |-> IF NonZero(xs) # <<>>
                            THEN keep_cols(RowsEqual(df, SeqMin(NonZero(xs))))
                            ELSE <<>>]

---------------------------------------------------------------------------
(* The single-dict hockey_overview: drop-NaN cleaning, float summary.      *)

\* df['points'] on a frame without that column raises KeyError; the column
\* names are not trimmed here.
overview_raises(df) == ~HasCol(df, N_points)

overview_clean(df) ==
    DropNaSubset(
        SetCol(df, N_points,
               [i \in 1..Len(df.rows) |-> ToNumeric(Col(df, N_points)[i])]),
        N_points)

\* The caller's frame after hockey_overview(df): df.copy() again.
CallerAfterOverview(df) == df

overview_summary(xs) ==
    LET f == Fences(xs)
    IN  [count       |-> Len(xs),
         mean        |-> Mean(xs),
         median      |-> Median(xs),
         variance    |-> Var(xs),
         std_dev     |-> Std(xs),
         iqr         |-> f.iqr,
         lower_bound |-> f.lower,
         upper_bound |-> f.upper]

overview_groups(df, sm) ==
    LET xs    == Nums(Col(df, N_points))
        upper == sort_values(RowsAtLeast(df, sm.upper_bound),
                             <<N_year, N_points>>, FALSE)
        lower == sort_values(RowsAtMost(df, sm.lower_bound),
                             <<N_points, N_year>>, TRUE)
    IN  [upper_players  |-> keep_cols(upper),
         lower_players  |-> keep_cols(lower),
         top_players    |-> IF xs = <<>> THEN <<>>
                            ELSE keep_cols(RowsEqual(df, SeqMax(xs))),
         bottom_players |-> IF xs = <<>> THEN <<>>
                            ELSE keep_cols(RowsEqual(df, SeqMin(xs))),
         bottom_nonzero |-> IF NonZero(xs) # <<>>
                            THEN keep_cols(RowsEqual(df, SeqMin(NonZero(xs))))
                            ELSE <<>>]

---------------------------------------------------------------------------
(* 1C. The report of the single-dict variant.                              *)

\* head(5) of the categorical quick-look.
TopN == 5

\* The values of a column in order of first appearance, missing ones left out.
RECURSIVE FirstSeen(_)
FirstSeen(cells) ==
    IF cells = <<>> THEN <<>>
    ELSE LET before == FirstSeen(SubSeq(cells, 1, Len(cells) - 1))
             c      == cells[Len(cells)]
         IN  IF IsNaN(c) \/ \E i \in 1..Len(before) : before[i] = c
             THEN before ELSE Append(before, c)

\* Stable insertion by descending count.
RECURSIVE InsertCount(_, _)
InsertCount(sorted, e) ==
    IF sorted = <<>> THEN <<e>>
    ELSE IF e.count > Head(sorted).count THEN <<e>> \o sorted
    ELSE <<Head(sorted)>> \o InsertCount(Tail(sorted), e)

RECURSIVE SortCounts(_)
SortCounts(es) ==
    IF es = <<>> THEN <<>>
    ELSE InsertCount(SortCounts(SubSeq(es, 1, Len(es) - 1)), es[Len(es)])

\* Series.value_counts() : every value with its frequency, most frequent first.
value_counts(cells) ==
    SortCounts([i \in 1..Len(FirstSeen(cells)) |->
        [value |-> FirstSeen(cells)[i],
         count |-> Cardinality({j \in 1..Len(cells) :
                                   cells[j] = FirstSeen(cells)[i]})]])

\* .head(n)
head(s, n) == SubSeq(s, 1, IF Len(s) < n THEN Len(s) ELSE n)

\* df[name].value_counts().head(5).to_dict() if name in df.columns else {}
top_counts(df, name) ==
    IF HasCol(df, name) THEN head(value_counts(Col(df, name)), TopN) ELSE <<>>

\* df.isnull().sum().to_dict()
null_counts(df) ==
    [c \in {df.columns[i] : i \in 1..Len(df.columns)} |->
        Cardinality({i \in 1..Len(df.rows) : IsNaN(df.rows[i][ColIx(df, c)])})]

\* df.dtypes.to_dict(), as far as the cells tell: a column of numbers and
\* missing values is numeric, any other is object.
dtypes(df) ==
    [c \in {df.columns[i] : i \in 1..Len(df.columns)} |->
        IF \A i \in 1..Len(df.rows) : df.rows[i][ColIx(df, c)].k # "str"
        THEN "number" ELSE "object"]

\* df.memory_usage(deep=True).sum(), counted at eight bytes a cell; the
\* sizes of the index and of the strings an object column points to are
\* left out.
mem_bytes(df) == 8 * Len(df.rows) * Len(df.columns)

\* round(mem_bytes / 1024 ** 2, 3), in thousandths of a megabyte.
memory_MB(df) == (mem_bytes(df) * 1000 + (1024 * 1024) \div 2) \div (1024 * 1024)

\* round(mem_bytes / len(df), 1) if len(df) else 0, in tenths of a byte.
bytes_per_row(df) ==
    IF Len(df.rows) = 0 THEN 0 ELSE (mem_bytes(df) * 10) \div Len(df.rows)

\* A dict display: the items are taken in order, and an item whose key was
\* already given replaces the value stored under that key.
DictDisplay(items) ==
    [k \in {items[i][1] : i \in 1..Len(items)} |->
        items[CHOOSE i \in 1..Len(items) :
                 /\ items[i][1] = k
                 /\ \A j \in (i + 1)..Len(items) : items[j][1] # k][2]]

\* overview = { ... }, the items in the order of the display.
overview_report(df, sm, gr) ==
    DictDisplay(<<
        <<"num_rows",       Len(df.rows)>>,
        <<"num_cols",       Len(df.columns)>>,
        <<"memory_MB",      memory_MB(df)>>,
        <<"bytes_per_row",  bytes_per_row(df)>>,
        <<"dtypes",         dtypes(df)>>,
        <<"null_counts",    null_counts(df)>>,
        <<"top_teams",      top_counts(df, N_team)>>,
        <<"top_players",    top_counts(df, N_player)>>,
        <<"points_summary", sm>>,
        <<"upper_players",  gr.upper_players>>,
        <<"lower_players",  gr.lower_players>>,
        <<"top_players",    gr.top_players>>,
        <<"bottom_players", gr.bottom_players>>,
        <<"bottom_nonzero", gr.bottom_nonzero>> >>)

---------------------------------------------------------------------------
(* 3. Points per season.                                                   *)

\* df[name] = values, the column appended when the frame has none of the name.
AssignCol(df, name, values) ==
    IF HasCol(df, name) THEN SetCol(df, name, values)
    ELSE Frame(Append(df.columns, name),
               [i \in 1..Len(df.rows) |-> Append(df.rows[i], values[i])])

\* out.get("to_year", np.nan) : the column, or a missing value for every row.
GetToYear(df) ==
    IF HasCol(df, N_to_year) THEN Col(df, N_to_year)
    ELSE [i \in 1..Len(df.rows) |-> NaN]

\* to_year.fillna(year), one cell
FillNaWith(c, other) == IF IsNaN(c) THEN other ELSE c

\* A years_played that is taken as computed, without a floor.
no_clip(x, lower) == x

\* .clip(lower=1), one value
clip(x, lower) == IF x < lower THEN lower ELSE x

\* A quotient cell: numerator (in Units) over denominator; a division by
\* zero gives an infinity, or a missing value when the numerator is zero too.
Quotient(a, b) ==
    IF b = 0
    THEN IF a = 0 THEN [k |-> "nan", n |-> 0, s |-> "", d |-> 0]
                  ELSE [k |-> "inf", n |-> a, s |-> "", d |-> 0]
    ELSE [k |-> "num", n |-> a, s |-> "", d |-> b]

ensure_points_per_season(df) ==
    LET o1  == SetCol(df, N_points,
                      [i \in 1..Len(df.rows) |-> ToNumeric(Col(df, N_points)[i])])
        o2  == SetCol(o1, N_year,
                      [i \in 1..Len(df.rows) |-> ToNumeric(Col(o1, N_year)[i])])
        o3  == AssignCol(o2, N_to_year,
                         [i \in 1..Len(df.rows) |-> ToNumeric(GetToYear(o2)[i])])
        o4  == DropNaSubset(DropNaSubset(o3, N_points), N_year)
        end_year == [i \in 1..Len(o4.rows) |->
                        FillNaWith(Col(o4, N_to_year)[i], Col(o4, N_year)[i])]
        years_played == [i \in 1..Len(o4.rows) |->
                            Num(clip(end_year[i].n - Col(o4, N_year)[i].n + 1, 1))]
        o5  == AssignCol(o4, N_years_played, years_played)
    IN  AssignCol(o5, N_points_per_season,
                  [i \in 1..Len(o5.rows) |->
                      Quotient(Col(o5, N_points)[i].n,
                               Col(o5, N_years_played)[i].n)])

---------------------------------------------------------------------------
(* 3B. Season comparison: cohorts, eras and the yearly trend.              *)
(* An aggregate is an exact rational [n, d], d > 0, in Units.              *)

\* The defaults of the keyword arguments.
cutoff_year == 2000
roll == 5

\* The value of a numeric cell: a quotient cell carries its denominator.
RatOf(c) == IF "d" \in DOMAIN c THEN [n |-> c.n, d |-> c.d] ELSE [n |-> c.n, d |-> 1]

RatLess(a, b) == a.n * b.d < b.n * a.d

RatAdd(a, b) == [n |-> a.n * b.d + b.n * a.d, d |-> a.d * b.d]

RECURSIVE SumRats(_)
SumRats(rs) ==
    IF rs = <<>> THEN [n |-> 0, d |-> 1] ELSE RatAdd(Head(rs), SumRats(Tail(rs)))

RECURSIVE InsertRat(_, _)
InsertRat(sorted, x) ==
    IF sorted = <<>> THEN <<x>>
    ELSE IF RatLess(x, Head(sorted)) THEN <<x>> \o sorted
    ELSE <<Head(sorted)>> \o InsertRat(Tail(sorted), x)

RECURSIVE SortRats(_)
SortRats(rs) ==
    IF rs = <<>> THEN <<>> ELSE InsertRat(SortRats(Tail(rs)), Head(rs))

\* "mean" of a group that is not empty
MeanRat(rs) == [n |-> SumRats(rs).n, d |-> SumRats(rs).d * Len(rs)]

\* "median" of a group that is not empty: the middle value, or the mean of
\* the two middle values.
MedianRat(rs) ==
    LET srt == SortRats(rs)
        h   == Len(rs) \div 2
    IN  IF Len(rs) % 2 = 1 THEN srt[h + 1]
        ELSE MeanRat(<<srt[h], srt[h + 1]>>)

\* .round(2) : hundredths, a tie going to the even neighbour.
Round2(r) ==
    LET num == 100 * r.n
        den == r.d * Unit
        q   == num \div den
        rem == num % den
    IN  IF 2 * rem > den THEN q + 1
        ELSE IF 2 * rem < den THEN q
        ELSE q + (q % 2)

\* The values of a column, missing cells left out, as rationals.
Rats(df, name) ==
    LET cells == SelectSeq(Col(df, name), LAMBDA c : ~IsNaN(c))
    IN  [i \in 1..Len(cells) |-> RatOf(cells[i])]

\* ("name", "count") : the cells of the column that are not missing.
CountOf(df, name) == Len(SelectSeq(Col(df, name), LAMBDA c : ~IsNaN(c)))

\* req - set(d.columns)
MissingColumns(df) ==
    {c \in {N_year, N_player, N_team, N_points, N_points_per_season} :
        ~HasCol(df, c)}

\* d[d["year"] < cutoff_year]
RowsYearBelow(df, cut) ==
    Frame(df.columns,
          SelectSeq(df.rows, LAMBDA r : ~IsNaN(r[ColIx(df, N_year)])
                                        /\ r[ColIx(df, N_year)].n < cut))

\* A later cohort that starts the year after the cutoff: d[d["year"] > cutoff_year].
RowsYearAfter(df, cut) ==
    Frame(df.columns,
          SelectSeq(df.rows, LAMBDA r : ~IsNaN(r[ColIx(df, N_year)])
                                        /\ r[ColIx(df, N_year)].n > cut))

\* d[d["year"] >= cutoff_year]
RowsYearFrom(df, cut) ==
    Frame(df.columns,
          SelectSeq(df.rows, LAMBDA r : ~IsNaN(r[ColIx(df, N_year)])
                                        /\ r[ColIx(df, N_year)].n >= cut))

\* One row of the cohort table: the aggregates of a group, rounded.
cohort_row(label, g) ==
    [cohort                   |-> label,
     mean_points_per_season   |-> Round2(MeanRat(Rats(g, N_points_per_season))),
     median_points_per_season |-> Round2(MedianRat(Rats(g, N_points_per_season))),
     mean_points              |-> Round2(MeanRat(Rats(g, N_points))),
     median_points            |-> Round2(MedianRat(Rats(g, N_points))),
     n                        |-> CountOf(g, N_points)]

\* pd.concat([pre, post]).groupby("cohort").agg(...).round(2).reset_index():
\* one row for each cohort that has records, "<" sorting before ">=".
cohort_stats(p, q, cut) ==
    (IF p.rows = <<>> THEN <<>>
     ELSE <<cohort_row([rel |-> "<", year |-> cut], p)>>)
    \o
    (IF q.rows = <<>> THEN <<>>
     ELSE <<cohort_row([rel |-> ">=", year |-> cut], q)>>)

\* bins_ = [1963, 1969, 1979, 1989, 1999, 2009, 2019, max_year]
bins_(max_year) == <<1963, 1969, 1979, 1989, 1999, 2009, 2019, max_year>>

\* labels_ : the decades, and the last label, which is written with max_year.
labels_(max_year) ==
    [i \in 1..7 |->
        [text |-> <<"1960s", "1970s", "1980s", "1990s", "2000s", "2010s",
                    "2020-">>[i],
         to   |-> IF i = 7 THEN max_year ELSE 0]]

\* pd.cut raises ValueError unless the edges increase strictly.
CutRaises(bins) == \E i \in 1..(Len(bins) - 1) : bins[i] >= bins[i + 1]

\* pd.cut(..., include_lowest=True, right=True), one year: the number of the
\* interval (bins[i], bins[i+1]] that holds it, the lowest edge counting as
\* inside the first; 0 when no interval holds it.
EraIx(y, bins) ==
    IF y = bins[1] THEN 1
    ELSE IF \E i \in 1..(Len(bins) - 1) : bins[i] < y /\ y <= bins[i + 1]
    THEN CHOOSE i \in 1..(Len(bins) - 1) : bins[i] < y /\ y <= bins[i + 1]
    ELSE 0

RowsInEra(df, bins, i) ==
    Frame(df.columns,
          SelectSeq(df.rows,
                    LAMBDA r : EraIx(r[ColIx(df, N_year)].n, bins) = i))

\* d.assign(era=...).groupby("era", observed=True).agg(...).round(2):
\* one row for each era that has records, in the order of the labels.
era_table(df, max_year) ==
    LET seen == SelectSeq([i \in 1..7 |-> i],
                          LAMBDA i : RowsInEra(df, bins_(max_year), i).rows # <<>>)
    IN  [k \in 1..Len(seen) |->
            LET g == RowsInEra(df, bins_(max_year), seen[k])
            IN  [era        |-> labels_(max_year)[seen[k]],
                 mean_pps   |-> Round2(MeanRat(Rats(g, N_points_per_season))),
                 median_pps |-> Round2(MedianRat(Rats(g, N_points_per_season))),
                 players    |-> CountOf(g, N_player)]]

RowsOfYear(df, y) ==
    Frame(df.columns,
          SelectSeq(df.rows, LAMBDA r : r[ColIx(df, N_year)].n = y))

\* d.groupby("year", as_index=False).agg(...).sort_values("year")
yearly_groups(df) ==
    LET years == SortNums(Nums(FirstSeen(Col(df, N_year))))
    IN  [k \in 1..Len(years) |->
            LET g == RowsOfYear(df, years[k])
            IN  [year       |-> years[k],
                 median_pps |-> MedianRat(Rats(g, N_points_per_season)),
                 mean_pps   |-> MeanRat(Rats(g, N_points_per_season)),
                 n          |-> CountOf(g, N_player)]]

\* .rolling(roll, min_periods=1, center=True).mean() at place k: the mean of
\* the window around k, as far as the table reaches.
rolling_mean(xs, k, w) ==
    LET lo == IF k - (w \div 2) < 1 THEN 1 ELSE k - (w \div 2)
        hi == IF k + ((w - 1) \div 2) > Len(xs) THEN Len(xs)
              ELSE k + ((w - 1) \div 2)
    IN  MeanRat(SubSeq(xs, lo, hi))

\* yearly with its column roll_median_pps
yearly_trend(df, w) ==
    LET y == yearly_groups(df)
    IN  [k \in 1..Len(y) |->
            [year            |-> y[k].year,
             median_pps      |-> y[k].median_pps,
             mean_pps        |-> y[k].mean_pps,
             n               |-> y[k].n,
             roll_median_pps |->
                 rolling_mean([j \in 1..Len(y) |-> y[j].median_pps], k, w)]]

---------------------------------------------------------------------------
(* 4. Pre-correlation diagnostics: the recommendation heuristic.           *)
(* A statistic is a float in hundredths, F(h, 100), or NaN.                *)

\* The three thresholds of the heuristic, in hundredths.
RhoGain   == 10
ResidCorr == 20
DeltaR2   == 3

Abs(h) == IF h < 0 THEN -h ELSE h

\* df[[x, y]]
SelectCols(df, names) ==
    Frame(names,
          [i \in 1..Len(df.rows) |->
              [j \in 1..Len(names) |-> df.rows[i][ColIx(df, names[j])]]])

\* df[[x, y]].dropna()
CompleteRows(df, x, y) ==
    DropNaSubset(DropNaSubset(SelectCols(df, <<x, y>>), x), y)

\* recommend = "pearson" ; reasons = []
HeuristicStart == [recommend |-> "pearson", reasons |-> <<>>]

\* if not (isnan(rho) or isnan(r)) and abs(rho) - abs(r) >= 0.10: ...
IfRhoGain(h, r, rho) ==
    IF ~(rho.nan \/ r.nan) /\ Abs(rho.n) - Abs(r.n) >= RhoGain
    THEN [recommend |-> "spearman",
          reasons   |-> Append(h.reasons, "|rho| noticeably > |r| (>= 0.10)")]
    ELSE h

\* if not isnan(r_res_fit) and abs(r_res_fit) > 0.20: ...
IfResidPattern(h, r_res_fit) ==
    IF ~r_res_fit.nan /\ Abs(r_res_fit.n) > ResidCorr
    THEN [recommend |-> "spearman",
          reasons   |-> Append(h.reasons, "|corr(resid, fitted)| > 0.20 (pattern)")]
    ELSE h

\* The last test with the reason noted and the recommendation left as it was.
IfNonlinearReasonOnly(h, delta_r2) ==
    IF ~delta_r2.nan /\ delta_r2.n > DeltaR2
    THEN [recommend |-> h.recommend,
          reasons   |-> Append(h.reasons, "quadratic adds > 0.03 R2 (nonlinearity)")]
    ELSE h

\* if not isnan(delta_r2) and delta_r2 > 0.03: ...
IfNonlinear(h, delta_r2) ==
    IF ~delta_r2.nan /\ delta_r2.n > DeltaR2
    THEN [recommend |-> "spearman",
          reasons   |-> Append(h.reasons, "quadratic adds > 0.03 R2 (nonlinearity)")]
    ELSE h

\* The dict returned; the two p-values, which no decision reads, are left out.
correlation_result(n, r, rho, r_res_fit, delta_r2) ==
    LET h == IfNonlinear(IfResidPattern(IfRhoGain(HeuristicStart, r, rho),
                                        r_res_fit),
                         delta_r2)
    IN  [recommendation |-> h.recommend,
         n              |-> n,
         pearson_r      |-> r,
         spearman_rho   |-> rho,
         resid_corr     |-> r_res_fit,
         delta_r2_quad  |-> delta_r2,
         reasons        |-> h.reasons]

---------------------------------------------------------------------------
(* Inputs.                                                                 *)

Player == Str("McDavid")
Team   == Str("EDM")

\* Rows whose points arrive as numbers (in Units); two draft years share
\* the same points so that both sort keys of a slice are exercised.
NumberRows ==
    {<<Num(2000), Player, Team, Num(-Unit)>>,
     <<Num(2000), Player, Team, Num(0)>>,
     <<Num(2001), Player, Team, Num(0)>>,
     <<Num(2000), Player, Team, Num(Unit)>>}

\* Rows whose points arrive as something else: missing, text that is no
\* number, text that is a number.
OtherRows ==
    {<<Num(2001), Player, Team, p>> : p \in {NaN, Str("abc"), Str("1.5")}}

\* A line of empty fields.
AllMissingRow == <<NaN, NaN, NaN, NaN>>

RawRows == NumberRows \cup OtherRows \cup {AllMissingRow}

\* The name the points column may carry in the file; N_pts stands for a
\* file without a points column.
PointsHeaders == {N_points, N_points_padded, N_pts}

RawFrames ==
    {Frame(<<N_year, N_player, N_team, h>>, rows) :
        h \in PointsHeaders,
        rows \in UNION {[1..n -> RawRows] : n \in 0..MaxRows}}

---------------------------------------------------------------------------
(* State machine.  Optional results are <<>> (absent) or <<value>>.        *)

Init ==
    /\ raw_df \in RawFrames
    /\ pc = "start"
    /\ df_clean = <<>>
    /\ df_reclean = <<>>
    /\ summary = <<>>
    /\ groups = <<>>
    /\ overview = <<>>
    /\ out = <<>>
    /\ result = <<>>
    /\ pre = <<>>
    /\ post = <<>>
    /\ stats = <<>>
    /\ res = <<>>
    /\ err = ""

\* A cleaning step that, instead of raising, supplies a points column of
\* zeros when the frame has none.
FacadeCleanDefaulting ==
    /\ pc = "start"
    /\ pc' = "cleaned"
    /\ df_clean' =
          IF CleanRaises(raw_df)
          THEN <<Frame(CleanPrepared(raw_df).columns \o <<N_points>>,
                       [i \in 1..Len(CleanPrepared(raw_df).rows) |->
                           CleanPrepared(raw_df).rows[i] \o <<Num(0)>>])>>
          ELSE <<clean_hockey_df(raw_df)>>
    /\ raw_df' = CallerAfterClean(raw_df)
    /\ UNCHANGED <<df_reclean, summary, groups, overview, out, result, pre, post, stats, res, err>>

\* Facade, line 91: df_clean = clean_hockey_df(df)
FacadeClean ==
    /\ pc = "start"
    /\ IF CleanRaises(raw_df)
       THEN /\ pc' = "clean_failed"
            /\ err' = "KeyError"
            /\ UNCHANGED df_clean
       ELSE /\ pc' = "cleaned"
            /\ df_clean' = <<clean_hockey_df(raw_df)>>
            /\ UNCHANGED err
    /\ raw_df' = CallerAfterClean(raw_df)
    /\ UNCHANGED <<df_reclean, summary, groups, overview, out, result, pre, post, stats, res>>

\* Facade, lines 92-93: summary = points_summary(df_clean["points"])
FacadeSummary ==
    /\ pc = "cleaned"
    /\ LET xs == Nums(Col(df_clean[1], N_points))
       IN  IF points_summary_raises(xs)
           THEN /\ pc' = "summary_failed"
                /\ err' = "ValueError"
                /\ UNCHANGED summary
           ELSE /\ pc' = "summarised"
                /\ summary' = <<points_summary(xs)>>
                /\ UNCHANGED err
    /\ UNCHANGED <<raw_df, df_clean, df_reclean, groups, overview, out, result, pre, post, stats, res>>

\* Facade, lines 94-95: groups = points_groups(df_clean, summary)
FacadeGroups ==
    /\ pc = "summarised"
    /\ pc' = "grouped"
    /\ groups' = <<points_groups(df_clean[1], summary[1])>>
    /\ UNCHANGED <<raw_df, df_clean, df_reclean, summary, overview, out, result, pre, post, stats, res, err>>

\* clean_hockey_df applied to its own output.
CleanAgain ==
    /\ pc = "cleaned"
    /\ IF CleanRaises(df_clean[1])
       THEN /\ pc' = "reclean_failed"
            /\ err' = "KeyError"
            /\ UNCHANGED df_reclean
       ELSE /\ pc' = "recleaned"
            /\ df_reclean' = <<clean_hockey_df(df_clean[1])>>
            /\ UNCHANGED err
    /\ df_clean' = <<CallerAfterClean(df_clean[1])>>
    /\ UNCHANGED <<raw_df, summary, groups, overview, out, result, pre, post, stats, res>>

\* The single-dict hockey_overview(df), whole.
Overview ==
    /\ pc = "start"
    /\ IF overview_raises(raw_df)
       THEN /\ pc' = "overview_failed"
            /\ err' = "KeyError"
            /\ UNCHANGED <<df_clean, summary, groups, overview>>
       ELSE LET dc == overview_clean(raw_df)
                sm == overview_summary(Nums(Col(dc, N_points)))
                gr == overview_groups(dc, sm)
            IN  /\ pc' = "overview"
                /\ df_clean' = <<dc>>
                /\ summary' = <<sm>>
                /\ groups' = <<gr>>
                /\ overview' = <<overview_report(dc, sm, gr)>>
                /\ UNCHANGED err
    /\ raw_df' = CallerAfterOverview(raw_df)
    /\ UNCHANGED <<df_reclean, out, result, pre, post, stats, res>>

Next == FacadeClean \/ FacadeSummary \/ FacadeGroups \/ CleanAgain \/ Overview

Spec == Init /\ [][Next]_vars

\* The worked example of the points sequence: the values 0, 2, 2, 5, 100.
ExamplePoints == <<0, 2, 2, 5, 100>>

\* The files that hold exactly the example's five values, in any order, under
\* any of the headers, drafted in either year.
ExampleFrames ==
    {Frame(<<N_year, N_player, N_team, h>>,
           [i \in 1..Len(ExamplePoints) |->
               <<Num(y[i]), Player, Team, Num(ExamplePoints[p[i]] * Unit)>>]) :
        h \in PointsHeaders,
        y \in [1..Len(ExamplePoints) -> {2000, 2001}],
        p \in {q \in [1..Len(ExamplePoints) -> 1..Len(ExamplePoints)] :
                  \A i, j \in 1..Len(ExamplePoints) : q[i] = q[j] => i = j}}

InitExample ==
    /\ raw_df \in ExampleFrames
    /\ pc = "start"
    /\ df_clean = <<>>
    /\ df_reclean = <<>>
    /\ summary = <<>>
    /\ groups = <<>>
    /\ overview = <<>>
    /\ out = <<>>
    /\ result = <<>>
    /\ pre = <<>>
    /\ post = <<>>
    /\ stats = <<>>
    /\ res = <<>>
    /\ err = ""

\* The same program, run on the example's files.
SpecExample == InitExample /\ [][Next]_vars

---------------------------------------------------------------------------
(* Points per season, run on frames of draft records.                      *)

\* Largest number of rows of a frame of draft records.
MaxSeasonRows == 2

\* A draft record: the draft year, the career points, the last season.  The
\* last season may lie before the draft year, be missing or be no number.
SeasonRows ==
    {<<y, p, t>> :
        y \in {Num(2000), NaN},
        p \in {Num(0), Num(3 * Unit), NaN},
        t \in {Num(1998), Num(1999), Num(2000), Num(2002), NaN, Str("abc")}}

\* The frames with a to_year column, and the frames without one.
SeasonFrames ==
    {Frame(<<N_year, N_points, N_to_year>>, rows) :
        rows \in UNION {[1..n -> SeasonRows] : n \in 0..MaxSeasonRows}}
    \cup
    {Frame(<<N_year, N_points>>, [i \in 1..Len(rows) |-> SubSeq(rows[i], 1, 2)]) :
        rows \in UNION {[1..n -> SeasonRows] : n \in 0..MaxSeasonRows}}

InitSeasons ==
    /\ raw_df \in SeasonFrames
    /\ pc = "start"
    /\ df_clean = <<>>
    /\ df_reclean = <<>>
    /\ summary = <<>>
    /\ groups = <<>>
    /\ overview = <<>>
    /\ out = <<>>
    /\ result = <<>>
    /\ pre = <<>>
    /\ post = <<>>
    /\ stats = <<>>
    /\ res = <<>>
    /\ err = ""

\* out = ensure_points_per_season(df)
EnsurePointsPerSeason ==
    /\ pc = "start"
    /\ pc' = "per_season"
    /\ out' = <<ensure_points_per_season(raw_df)>>
    /\ UNCHANGED <<raw_df, df_clean, df_reclean, summary, groups, overview,
                   result, pre, post, stats, res, err>>

NextSeasons == EnsurePointsPerSeason

SpecSeasons == InitSeasons /\ [][NextSeasons]_vars

---------------------------------------------------------------------------
(* Pre-correlation diagnostics, run on frames of two numeric columns.      *)

\* Largest number of rows of a frame handed to the diagnostics.
MaxPairRows == 4

\* A row: both values, either one missing, or both missing.
PairRows == {<<a, b>> : a \in {Num(Unit), NaN}, b \in {Num(Unit), NaN}}

PairFrames ==
    {Frame(<<N_assists, N_goalie_wins>>, rows) :
        rows \in UNION {[1..n -> PairRows] : n \in 0..MaxPairRows}}

\* What scipy and numpy may hand back, on a grid around the thresholds.
PearsonValues  == {FNaN} \cup {F(h, 100) : h \in {-40, 0, 40}}
SpearmanValues == {FNaN} \cup {F(h, 100) : h \in {-50, -49, 0, 49, 50}}
ResidValues    == {FNaN} \cup {F(h, 100) : h \in {-21, -20, 0, 20, 21}}
DeltaValues    == {FNaN} \cup {F(h, 100) : h \in {-1, 0, 3, 4}}

InitPairs ==
    /\ raw_df \in PairFrames
    /\ pc = "start"
    /\ df_clean = <<>>
    /\ df_reclean = <<>>
    /\ summary = <<>>
    /\ groups = <<>>
    /\ overview = <<>>
    /\ out = <<>>
    /\ result = <<>>
    /\ pre = <<>>
    /\ post = <<>>
    /\ stats = <<>>
    /\ res = <<>>
    /\ err = ""

\* pre_correlation_analysis(df, "assists", "goalie_wins"), whole.  Below three
\* complete rows it returns None.  The statistics are results of pearsonr,
\* spearmanr and polyfit: any value of the grids; a linear fit that failed
\* (m is NaN) leaves r_res_fit and delta_r2 NaN.
PreCorrelationAnalysis ==
    /\ pc = "start"
    /\ LET n == Len(CompleteRows(raw_df, N_assists, N_goalie_wins).rows)
       IN  IF n < 3
           THEN /\ pc' = "too_few"
                /\ UNCHANGED result
           ELSE \E r \in PearsonValues, rho \in SpearmanValues,
                   m_nan \in BOOLEAN,
                   rf \in ResidValues, d2 \in DeltaValues :
                    /\ pc' = "analysed"
                    /\ result' =
                          <<correlation_result(n, r, rho,
                                               IF m_nan THEN FNaN ELSE rf,
                                               IF m_nan THEN FNaN ELSE d2)>>
    /\ UNCHANGED <<raw_df, df_clean, df_reclean, summary, groups, overview,
                   out, pre, post, stats, res, err>>

NextPairs == PreCorrelationAnalysis

SpecPairs == InitPairs /\ [][NextPairs]_vars

---------------------------------------------------------------------------
(* Season comparison, run on frames of draft records.                      *)

\* Largest number of rows of a frame handed to the season comparison.
MaxCohortRows == 3

\* A draft record: drafted before the cutoff, in the cutoff year, after 2019,
\* or in no known year; with points or without; last season 2001.
CohortRows ==
    {<<y, Player, Team, p, Num(2001)>> :
        y \in {Num(1990), Num(2000), Num(2020), NaN},
        p \in {Num(Unit), Num(3 * Unit), NaN}}

\* The columns of a draft record, and the columns a file may hold: every
\* column, all but to_year, or neither to_year nor team.
CohortColumns == <<N_year, N_player, N_team, N_points, N_to_year>>

CohortHeaders ==
    {CohortColumns, SubSeq(CohortColumns, 1, 4), <<N_year, N_player, N_points>>}

\* The fields of a draft record under the columns of a header.
FieldsOf(row, header) ==
    [j \in 1..Len(header) |->
        row[CHOOSE k \in 1..Len(CohortColumns) : CohortColumns[k] = header[j]]]

CohortFrames ==
    {Frame(h, [i \in 1..Len(rows) |-> FieldsOf(rows[i], h)]) :
        h \in CohortHeaders,
        rows \in UNION {[1..n -> CohortRows] : n \in 0..MaxCohortRows}}

InitCohorts ==
    /\ raw_df \in CohortFrames
    /\ pc = "start"
    /\ df_clean = <<>>
    /\ df_reclean = <<>>
    /\ summary = <<>>
    /\ groups = <<>>
    /\ overview = <<>>
    /\ out = <<>>
    /\ result = <<>>
    /\ pre = <<>>
    /\ post = <<>>
    /\ stats = <<>>
    /\ res = <<>>
    /\ err = ""

\* season_comparison_enhanced, lines 33-54: d, the column check, the two
\* cohorts and their table.
SeasonCohorts ==
    /\ pc = "start"
    /\ LET d == ensure_points_per_season(raw_df)
       IN  IF MissingColumns(d) # {}
           THEN /\ pc' = "cohorts_failed"
                /\ err' = "KeyError"
                /\ UNCHANGED <<out, pre, post, stats>>
           ELSE LET p == RowsYearBelow(d, cutoff_year)
                    q == RowsYearFrom(d, cutoff_year)
                IN  /\ pc' = "cohorts"
                    /\ out' = <<d>>
                    /\ pre' = <<p>>
                    /\ post' = <<q>>
                    /\ stats' = <<cohort_stats(p, q, cutoff_year)>>
                    /\ UNCHANGED err
    /\ UNCHANGED <<raw_df, df_clean, df_reclean, summary, groups, overview,
                   result, res>>

\* season_comparison_enhanced, lines 56-127: the era table, the charts, the
\* yearly trend and the return.  int() of the maximum of no years raises, and
\* so does pd.cut when the latest draft year is not after 2019.  Labelling
\* the top records of an empty earlier cohort assigns the frame that apply
\* returns to one column, which raises or not with the pandas at hand.
SeasonTables ==
    /\ pc = "cohorts"
    /\ \E label_raises \in IF pre[1].rows = <<>> THEN BOOLEAN ELSE {FALSE} :
          IF \/ out[1].rows = <<>>
             \/ CutRaises(bins_(SeqMax(Nums(Col(out[1], N_year)))))
             \/ label_raises
          THEN /\ pc' = "tables_failed"
               /\ err' = "ValueError"
               /\ UNCHANGED res
          ELSE /\ pc' = "returned"
               /\ res' = <<[cohort_stats |-> stats[1],
                            era_table    |->
                                era_table(out[1],
                                          SeqMax(Nums(Col(out[1], N_year)))),
                            yearly_trend |-> yearly_trend(out[1], roll)]>>
               /\ UNCHANGED err
    /\ UNCHANGED <<raw_df, df_clean, df_reclean, summary, groups, overview,
                   out, result, pre, post, stats>>

NextCohorts == SeasonCohorts \/ SeasonTables

SpecCohorts == InitCohorts /\ [][NextCohorts]_vars

---------------------------------------------------------------------------
(* Vocabulary of the properties.                                           *)

\* The cleaned points column, once a cleaned frame exists.
CleanPts == Nums(Col(df_clean[1], N_points))

\* The cleaned records, in frame order.
CleanRecords == keep_cols(df_clean[1])

\* The quartiles and Tukey fences of the cleaned points, not rounded.
Q == Fences(CleanPts)

\* A summary was returned for a cleaned points column of positive IQR.
SummaryOfSpread ==
    /\ summary # <<>>
    /\ CleanPts # <<>>
    /\ Q.iqr.n > 0

SlicesOfSpread == SummaryOfSpread /\ groups # <<>>

Count(seq, x) == Cardinality({i \in 1..Len(seq) : seq[i] = x})

Range(seq) == {seq[i] : i \in 1..Len(seq)}

\* Two sequences hold the same records the same number of times.
SameRecords(a, b) ==
    /\ Len(a) = Len(b)
    /\ \A x \in Range(a) \cup Range(b) : Count(a, x) = Count(b, x)

---------------------------------------------------------------------------
\* C1: whenever a summary is returned for points of positive IQR, its stored
\* values satisfy lower_bound <= Q1 <= median <= Q3 <= upper_bound, Q1 and
\* Q3 being the interpolated quartiles of the cleaned points.
C1_QuartileOrder ==
    SummaryOfSpread =>
        /\ summary[1].lower_bound.n <= Q.q1.n
        /\ Q.q1.n <= summary[1].median.n
        /\ summary[1].median.n <= Q.q3.n
        /\ Q.q3.n <= summary[1].upper_bound.n

\* C2: with positive IQR the slices partition the records by count:
\* upper_players, the records strictly between the stored bounds and
\* lower_players add up to the number of cleaned records.
C2_CountPartition ==
    SlicesOfSpread =>
        Len(groups[1].upper_players)
        + Len(SelectSeq(CleanPts,
                        LAMBDA x : /\ summary[1].lower_bound.n < x
                                   /\ x < summary[1].upper_bound.n))
        + Len(groups[1].lower_players)
        = Len(CleanPts)

\* C3: upper_players holds exactly the cleaned records whose points reach
\* the Tukey upper fence Q3 + 1.5*IQR of the cleaned points.
C3_UpperIsTukey ==
    (groups # <<>> /\ CleanPts # <<>>) =>
        SameRecords(groups[1].upper_players,
                    SelectSeq(CleanRecords, LAMBDA r : r.points.n >= Q.upper.n))

\* C4: lower_players holds exactly the cleaned records whose points are at
\* or below the Tukey lower fence Q1 - 1.5*IQR of the cleaned points.
C4_LowerIsTukey ==
    (groups # <<>> /\ CleanPts # <<>>) =>
        SameRecords(groups[1].lower_players,
                    SelectSeq(CleanRecords, LAMBDA r : r.points.n <= Q.lower.n))

---------------------------------------------------------------------------
\* a stands at or before b in "year descending, then points descending".
UpperOrdered(a, b) ==
    \/ a.year.n > b.year.n
    \/ a.year.n = b.year.n /\ a.points.n >= b.points.n

\* a stands at or before b in "points ascending, then year ascending".
LowerOrdered(a, b) ==
    \/ a.points.n < b.points.n
    \/ a.points.n = b.points.n /\ a.year.n <= b.year.n

\* C5: in upper_players every adjacent pair is ordered by year descending
\* and, for equal years, by points descending; in lower_players every
\* adjacent pair is ordered by points ascending and, for equal points, by
\* year ascending.
C5_SliceOrder ==
    groups # <<>> =>
        /\ \A i \in 1..(Len(groups[1].upper_players) - 1) :
               UpperOrdered(groups[1].upper_players[i],
                            groups[1].upper_players[i + 1])
        /\ \A i \in 1..(Len(groups[1].lower_players) - 1) :
               LowerOrdered(groups[1].lower_players[i],
                            groups[1].lower_players[i + 1])

\* C5 witness: slices were returned for records that arrived out of order,
\* upper_players steps down in year, and lower_players steps up in points
\* and, within equal points, in year.
C5_Witness ==
    /\ groups # <<>>
    /\ \E i \in 1..(Len(CleanRecords) - 1) :
           ~UpperOrdered(CleanRecords[i], CleanRecords[i + 1])
    /\ \E i \in 1..(Len(groups[1].upper_players) - 1) :
           groups[1].upper_players[i].year.n
               > groups[1].upper_players[i + 1].year.n
    /\ \E i \in 1..(Len(groups[1].lower_players) - 1) :
           /\ groups[1].lower_players[i].points.n
                  = groups[1].lower_players[i + 1].points.n
           /\ groups[1].lower_players[i].year.n
                  < groups[1].lower_players[i + 1].year.n
    /\ \E i \in 1..(Len(groups[1].lower_players) - 1) :
           groups[1].lower_players[i].points.n
               < groups[1].lower_players[i + 1].points.n

\* r holds the largest (smallest) points of the cleaned records.
AtMaximum(r) == \A x \in Range(CleanRecords) : x.points.n <= r.points.n
AtMinimum(r) == \A x \in Range(CleanRecords) : r.points.n <= x.points.n

\* C6: for a non-empty cleaned data set top_players is exactly the records
\* at the maximum and bottom_players exactly the records at the minimum,
\* every tie included, so neither is empty.
C6_TopBottomExact ==
    (groups # <<>> /\ CleanRecords # <<>>) =>
        /\ groups[1].top_players = SelectSeq(CleanRecords, AtMaximum)
        /\ groups[1].bottom_players = SelectSeq(CleanRecords, AtMinimum)
        /\ groups[1].top_players # <<>>
        /\ groups[1].bottom_players # <<>>

\* C6 witness: slices of a data set with a tie at the maximum, a tie at a
\* minimum of zero and a record in between.
C6_Witness ==
    /\ groups # <<>>
    /\ Len(groups[1].top_players) >= 2
    /\ Len(groups[1].bottom_players) >= 2
    /\ groups[1].bottom_players[1].points.n = 0
    /\ groups[1].top_players[1].points.n > 0
    /\ Len(groups[1].top_players) + Len(groups[1].bottom_players)
           = Len(CleanRecords)

\* r holds the smallest points among the cleaned records that are not zero.
AtNonZeroMinimum(r) ==
    /\ r.points.n # 0
    /\ \A x \in Range(CleanRecords) :
           x.points.n # 0 => r.points.n <= x.points.n

\* C7: bottom_nonzero is empty if and only if every cleaned points value is
\* zero; otherwise it is exactly the records at the minimum over the
\* nonzero values.
C7_BottomNonzero ==
    groups # <<>> =>
        /\ groups[1].bottom_nonzero = <<>>
               <=> \A x \in Range(CleanRecords) : x.points.n = 0
        /\ groups[1].bottom_nonzero
               = SelectSeq(CleanRecords, AtNonZeroMinimum)

\* C7 witness: the all-zero example, three rows of 0: bottom_players holds
\* all three and bottom_nonzero none.
C7_WitnessAllZero ==
    /\ groups # <<>>
    /\ Len(CleanRecords) = 3
    /\ \A x \in Range(CleanRecords) : x.points.n = 0
    /\ groups[1].bottom_players = CleanRecords
    /\ groups[1].bottom_nonzero = <<>>

\* C8: cleaning is idempotent: clean_hockey_df applied to a cleaned frame
\* succeeds and returns that frame, same rows, column names and points.
C8_CleanIdempotent ==
    /\ pc # "reclean_failed"
    /\ pc = "recleaned" => df_reclean = df_clean

\* C8 witness: a frame that cleaning changed in every way it can (a padded
\* header, an empty line, points that are no integer) was cleaned twice.
C8_Witness ==
    /\ pc = "recleaned"
    /\ raw_df.columns # df_clean[1].columns
    /\ Len(raw_df.rows) > Len(df_clean[1].rows)
    /\ \E i \in 1..Len(raw_df.rows) : Str("1.5") \in Range(raw_df.rows[i])
    /\ \E i \in 1..Len(raw_df.rows) : Str("abc") \in Range(raw_df.rows[i])

\* No column of the input is named points, with or without padding.
NoPointsColumn ==
    \A i \in 1..Len(raw_df.columns) :
        raw_df.columns[i] \notin {N_points, N_points_padded}

\* C9: on an input without a points column cleaning fails with KeyError and
\* the run stops there: no cleaned frame, summary or slices exist.
C9_MissingColumnAborts ==
    (NoPointsColumn /\ pc # "start") =>
        /\ err = "KeyError"
        /\ pc \in {"clean_failed", "overview_failed"}
        /\ df_clean = <<>>
        /\ summary = <<>>
        /\ groups = <<>>

\* C9 witness: clean_hockey_df has rejected a frame that has rows but no
\* points column.
C9_Witness ==
    /\ NoPointsColumn
    /\ pc = "clean_failed"
    /\ err = "KeyError"
    /\ Len(raw_df.rows) > 0

\* C10: when no points value remains after cleaning, the statistics
\* computation fails with an error and returns no summary.
C10_EmptyInputFails ==
    (df_clean # <<>> /\ pc \notin {"cleaned", "recleaned"}
        /\ df_clean[1].rows = <<>>) =>
        /\ summary = <<>>
        /\ err # ""

---------------------------------------------------------------------------
\* The cleaned points are all one value.
OneValue == \A i, j \in 1..Len(CleanPts) : CleanPts[i] = CleanPts[j]

\* C11: for a non-empty points column with fewer than two distinct values,
\* a single element included, the summary has variance 0, std_dev 0, iqr 0
\* and both bounds equal to that value.
C11_DegenerateSummary ==
    (summary # <<>> /\ CleanPts # <<>> /\ OneValue) =>
        /\ ~summary[1].variance.nan /\ summary[1].variance.n = 0
        /\ ~summary[1].std_dev.nan /\ summary[1].std_dev.n = 0
        /\ ~summary[1].iqr.nan /\ summary[1].iqr.n = 0
        /\ summary[1].lower_bound.n = CleanPts[1]
        /\ summary[1].upper_bound.n = CleanPts[1]

---------------------------------------------------------------------------
---------------------------------------------------------------------------
\* The positions of the facade at which its cleaned frame exists.
FacadeCleaned ==
    pc \in {"cleaned", "summarised", "summary_failed", "grouped", "recleaned"}

\* What the draft variant is to make of a raw points field: 0 for a missing
\* field and for text that is no number, the integer part of a number.
ExpectedPoints(c) ==
    IF c = NaN \/ c = Str("abc") THEN Num(0)
    ELSE IF c = Str("1.5") THEN Num(Unit)
    ELSE c

\* The raw rows that have at least one field, in source order.
RowsWithAField ==
    SelectSeq(raw_df.rows, LAMBDA r : \E j \in 1..Len(r) : r[j] # NaN)

\* C13: the zero-fill cleaning keeps, in source order, exactly the rows that
\* have at least one non-missing field; their points become an integer, 0
\* where the field was missing or no number, else the number cast to
\* integer; the other fields are kept.
C13_ZeroFillCleaning ==
    FacadeCleaned =>
        LET kept == RowsWithAField
        IN  /\ df_clean[1].rows =
                  [i \in 1..Len(kept) |->
                      <<kept[i][1], kept[i][2], kept[i][3],
                        ExpectedPoints(kept[i][4])>>]
            /\ \A i \in 1..Len(df_clean[1].rows) :
                  df_clean[1].rows[i][4].n % Unit = 0

\* C13 witness: a cleaned frame of four raw rows: an empty line, which is
\* gone, and a missing, a textual and a fractional points field, which are
\* 0, 0 and 1.
C13_Witness ==
    /\ pc = "cleaned"
    /\ Len(raw_df.rows) = 4
    /\ {raw_df.rows[i][4] : i \in 2..4} = {NaN, Str("abc"), Str("1.5")}
    /\ raw_df.rows[1] = AllMissingRow
    /\ raw_df.rows[4][4] = Str("1.5")
    /\ raw_df.rows[2][4] = NaN
    /\ Len(df_clean[1].rows) = 3
    /\ [i \in 1..3 |-> df_clean[1].rows[i][4].n] = <<0, 0, Unit>>

---------------------------------------------------------------------------
\* The points of a slice, in slice order.
SlicePoints(recs) == [i \in 1..Len(recs) |-> recs[i].points.n \div Unit]

\* C14: for the points 0, 2, 2, 5, 100 every returned summary has median 2,
\* IQR 3, lower_bound -2.5 and upper_bound 9.5, and every returned slicing
\* has upper_players = the record with 100, lower_players empty and
\* bottom_nonzero = the two records with 2.
C14_WorkedExample ==
    /\ summary # <<>> =>
          /\ summary[1].median.n = 2 * Unit
          /\ summary[1].iqr.n = 3 * Unit
          /\ 2 * summary[1].lower_bound.n = -5 * Unit
          /\ 2 * summary[1].upper_bound.n = 19 * Unit
    /\ groups # <<>> =>
          /\ SlicePoints(groups[1].upper_players) = <<100>>
          /\ groups[1].lower_players = <<>>
          /\ SlicePoints(groups[1].bottom_nonzero) = <<2, 2>>

---------------------------------------------------------------------------
\* C15: the report of the single-dict variant holds the row count, the
\* column count, a memory footprint, the null count of every column, and the
\* five most frequent values of team and of player with their frequencies.
C15_OverviewReport ==
    overview # <<>> =>
        /\ overview[1]["num_rows"] = Len(df_clean[1].rows)
        /\ overview[1]["num_cols"] = Len(df_clean[1].columns)
        /\ "memory_MB" \in DOMAIN overview[1]
        /\ overview[1]["null_counts"] = null_counts(df_clean[1])
        /\ overview[1]["top_teams"] = top_counts(df_clean[1], N_team)
        /\ overview[1]["top_players"] = top_counts(df_clean[1], N_player)

---------------------------------------------------------------------------
\* The raw draft records that have a numeric year and numeric points.
SeasonKept ==
    SelectSeq(raw_df.rows, LAMBDA r : r[1].k = "num" /\ r[2].k = "num")

\* The span from draft year to last season of a raw record, both ends
\* counted; 1 when the record has no numeric last season.
SeasonSpan(r) ==
    IF Len(r) = 3 /\ r[3].k = "num" THEN r[3].n - r[1].n + 1 ELSE 1

\* C16: every row ensure_points_per_season returns has years_played =
\* max(1, to_year - year + 1) >= 1, a missing to_year counting as the draft
\* year, and points_per_season is the points divided by that positive number.
C16_YearsPlayedPositive ==
    pc = "per_season" =>
        /\ Len(out[1].rows) = Len(SeasonKept)
        /\ \A i \in 1..Len(SeasonKept) :
              LET yp  == out[1].rows[i][ColIx(out[1], N_years_played)]
                  pps == out[1].rows[i][ColIx(out[1], N_points_per_season)]
              IN  /\ yp.k = "num"
                  /\ yp.n >= 1
                  /\ yp.n = IF SeasonSpan(SeasonKept[i]) > 1
                            THEN SeasonSpan(SeasonKept[i]) ELSE 1
                  /\ pps.k = "num"
                  /\ pps.d = yp.n
                  /\ pps.n = SeasonKept[i][2].n

\* C16 witness: two records returned, one whose last season lies two years
\* before the draft year, one without a to_year that is a number.
C16_Witness ==
    /\ pc = "per_season"
    /\ Len(out[1].rows) = 2
    /\ HasCol(raw_df, N_to_year)
    /\ raw_df.rows[1][3] = Num(1998)
    /\ raw_df.rows[2][3] \in {NaN, Str("abc")}
    /\ raw_df.rows[1][2] = Num(3 * Unit)
    /\ out[1].rows[1][ColIx(out[1], N_years_played)] = Num(1)
    /\ out[1].rows[2][ColIx(out[1], N_years_played)] = Num(1)

---------------------------------------------------------------------------
\* The file names its points column with a space on either side.
PaddedHeader ==
    /\ HasCol(raw_df, N_points_padded)
    /\ ~HasCol(raw_df, N_points)

\* C17: clean_hockey_df trims the column names before it looks for points:
\* a frame whose points column is named ' points ' is never rejected with
\* the missing-column error, and the cleaned frame names the column exactly
\* 'points', in the place the padded name had.
C17_PaddedHeaderCleaned ==
    (PaddedHeader /\ pc \in {"clean_failed"} \cup
                            {"cleaned", "summarised", "summary_failed",
                             "grouped", "recleaned", "reclean_failed"}) =>
        /\ pc # "clean_failed"
        /\ err # "KeyError"
        /\ df_clean # <<>>
        /\ HasCol(df_clean[1], N_points)
        /\ ~HasCol(df_clean[1], N_points_padded)
        /\ ColIx(df_clean[1], N_points) = ColIx(raw_df, N_points_padded)

\* C17 witness: a frame with the padded name and a numeric-text points
\* field, cleaned: the column is named 'points' and holds the number.
C17_Witness ==
    /\ PaddedHeader
    /\ pc = "cleaned"
    /\ df_clean[1].columns = <<N_year, N_player, N_team, N_points>>
    /\ Len(raw_df.rows) = 1
    /\ raw_df.rows[1][4] = Str("1.5")
    /\ df_clean[1].rows[1][4] = Num(Unit)

---------------------------------------------------------------------------
\* Every record of slice a is a record of slice b, as many times.
Within(a, b) == \A x \in Range(a) : Count(a, x) <= Count(b, x)

\* C18: whenever upper_players is not empty it holds every record of
\* top_players, and whenever lower_players is not empty it holds every
\* record of bottom_players.
C18_ExtremesInOutliers ==
    groups # <<>> =>
        /\ groups[1].upper_players # <<>> =>
              Within(groups[1].top_players, groups[1].upper_players)
        /\ groups[1].lower_players # <<>> =>
              Within(groups[1].bottom_players, groups[1].lower_players)

\* C18 witness: slices of the facade with an upper outlier slice larger than
\* the records at the maximum, and a lower outlier slice that is not empty.
C18_Witness ==
    /\ pc = "grouped"
    /\ groups[1].lower_players # <<>>
    /\ groups[1].top_players # <<>>
    /\ Len(groups[1].upper_players) > Len(groups[1].top_players)
    /\ groups[1].top_players # groups[1].bottom_players

---------------------------------------------------------------------------
\* C19: for a cleaned frame that is not empty, a minimum other than zero
\* makes bottom_nonzero the same records as bottom_players; a minimum of
\* zero beside some value that is not zero makes the two slices disjoint.
C19_BottomNonzeroVsBottom ==
    (groups # <<>> /\ CleanPts # <<>>) =>
        /\ SeqMin(CleanPts) # 0 =>
              groups[1].bottom_nonzero = groups[1].bottom_players
        /\ (SeqMin(CleanPts) = 0 /\ \E i \in 1..Len(CleanPts) : CleanPts[i] # 0) =>
              Range(groups[1].bottom_nonzero)
                  \cap Range(groups[1].bottom_players) = {}

\* C19 witness: slices of the facade for points with a negative minimum
\* beside a zero and a positive value.
C19_Witness ==
    /\ pc = "grouped"
    /\ {-Unit, 0, Unit} \subseteq Range(CleanPts)
    /\ groups[1].bottom_nonzero # <<>>
    /\ groups[1].bottom_nonzero = groups[1].bottom_players

---------------------------------------------------------------------------
\* The number of rows of the input that hold both values.
CompletePairs ==
    Cardinality({i \in 1..Len(raw_df.rows) :
                    raw_df.rows[i][1] # NaN /\ raw_df.rows[i][2] # NaN})

\* At least one of the three signs is in the returned statistics:
\* |rho| - |r| >= 0.10, |corr(resid, fitted)| > 0.20, delta R2 > 0.03.
SomeSign(dict) ==
    \/ /\ ~dict.spearman_rho.nan
       /\ ~dict.pearson_r.nan
       /\ Abs(dict.spearman_rho.n) - Abs(dict.pearson_r.n) >= 10
    \/ ~dict.resid_corr.nan /\ Abs(dict.resid_corr.n) > 20
    \/ ~dict.delta_r2_quad.nan /\ dict.delta_r2_quad.n > 3

\* C20: with at least three complete rows the diagnostics return a result
\* whose recommendation is 'spearman' exactly when its reasons are not
\* empty, which is exactly when one of the three signs is present, and
\* 'pearson' otherwise; with fewer complete rows they return nothing.
C20_RecommendationIffReasons ==
    /\ pc \in {"analysed", "too_few"} => (pc = "too_few" <=> CompletePairs < 3)
    /\ pc = "too_few" => result = <<>>
    /\ pc = "analysed" =>
          /\ result # <<>>
          /\ result[1].n = CompletePairs
          /\ result[1].recommendation \in {"spearman", "pearson"}
          /\ result[1].recommendation = "spearman" <=> result[1].reasons # <<>>
          /\ result[1].reasons # <<>> <=> SomeSign(result[1])

\* C20 witness: three complete rows beside an incomplete one, |rho| - |r|
\* and corr(resid, fitted) below their thresholds, and a quadratic gain of
\* 0.04 as the only reason for 'spearman'.
C20_Witness ==
    /\ pc = "analysed"
    /\ Len(raw_df.rows) = 4
    /\ result[1].n = 3
    /\ result[1].pearson_r = F(40, 100)
    /\ result[1].spearman_rho = F(49, 100)
    /\ result[1].resid_corr = F(20, 100)
    /\ result[1].delta_r2_quad = F(4, 100)
    /\ result[1].recommendation = "spearman"
    /\ Len(result[1].reasons) = 1

---------------------------------------------------------------------------
\* The cleaned records of the season comparison: the raw records that have a
\* numeric year and numeric points, counted.
CleanedCount ==
    Cardinality({i \in 1..Len(raw_df.rows) :
                    /\ raw_df.rows[i][ColIx(raw_df, N_year)].k = "num"
                    /\ raw_df.rows[i][ColIx(raw_df, N_points)].k = "num"})

\* The n values of a cohort table, added up.
RECURSIVE SumOfN(_)
SumOfN(table) ==
    IF table = <<>> THEN 0 ELSE Head(table).n + SumOfN(Tail(table))

\* The draft year of a record of the frame d.
YearOf(r) == r[ColIx(out[1], N_year)].n

\* C21: once season_comparison_enhanced has split the cleaned records, every
\* one of them is in exactly one cohort, pre holding the draft years before
\* the cutoff and post the draft years from the cutoff on, and the n values
\* of the cohort table add up to the number of cleaned records; the table
\* returned is that table.
C21_CohortsPartition ==
    pc \in {"cohorts", "tables_failed", "returned"} =>
        /\ Len(out[1].rows) = CleanedCount
        /\ \A x \in Range(out[1].rows) :
              /\ Count(pre[1].rows, x) + Count(post[1].rows, x)
                     = Count(out[1].rows, x)
              /\ Count(pre[1].rows, x) = 0 \/ Count(post[1].rows, x) = 0
        /\ Range(pre[1].rows) \cup Range(post[1].rows) \subseteq Range(out[1].rows)
        /\ \A x \in Range(pre[1].rows) : YearOf(x) < 2000
        /\ \A x \in Range(post[1].rows) : YearOf(x) >= 2000
        /\ SumOfN(stats[1]) = CleanedCount
        /\ pc = "returned" => SumOfN(res[1].cohort_stats) = CleanedCount

\* C21 witness: a comparison that returned its tables for records drafted
\* before the cutoff, in the cutoff year and after 2019: one record in the
\* earlier cohort, two in the later.
C21_Witness ==
    /\ pc = "returned"
    /\ {YearOf(out[1].rows[i]) : i \in 1..Len(out[1].rows)} = {1990, 2000, 2020}
    /\ Len(pre[1].rows) = 1
    /\ Len(post[1].rows) = 2
    /\ [i \in 1..2 |-> res[1].cohort_stats[i].n] = <<1, 2>>

===========================================================================
